---- MODULE Spec2Model ----
(***************************************************************************)
(* Model of model/train.py: the adversarial-patch trainer.                 *)
(*                                                                         *)
(*   calculate_success  the top-1 success fraction of a score tensor       *)
(*   train_step         one batch, image by image: placement, optimizer    *)
(*                      update (training only), clip of the shared patch   *)
(*   train / val        the epoch drivers: train_step over a loader        *)
(*   train_patch        the epoch loop: best-patch tracking, rollback,     *)
(*                      persistence and early stopping                     *)
(*                                                                         *)
(* Tensors are held in storage cells, so that sharing of storage between   *)
(* the live patch and the best snapshot is something the model can show.   *)
(* A patch tensor holds PatchLen finite numbers.          A loss is a      *)
(* float: a finite value (counted in thirds of 1e-4), +infinity or NaN.    *)
(***************************************************************************)
EXTENDS Integers, Sequences, FiniteSets, TLC

\* ------------------------------------------------------------- bounds
MaxEpochs   == 3      \* largest configured epoch count
MaxPatience == 1      \* largest configured stop_threshold
MaxLoss     == 1      \* largest finite validation loss
PatchLen    == 1      \* elements of the patch tensor
NumTrain    == 1      \* samples the train loader yields per epoch
NumVal      == 1      \* samples the validation loader yields per epoch
MaxBatch    == 2      \* largest batch train_step is given
MaxImg      == 3      \* largest height / width of an image or a transformed patch
MaxRows     == 2      \* largest batch dimension of a score tensor
MaxClasses  == 2      \* largest class dimension of a score tensor
MaxScore    == 1      \* scores and probability levels are 0..MaxScore

\* ------------------------------------------------- program constants
ClipLo == -1
ClipHi == 1
PosInf == 1000000
NaN    == PosInf + 1

VARIABLES
    pc,              \* position of the running function
    store,           \* storage cell -> tensor value
    initial_patch,   \* storage cell of the live patch's .data
    best_patch,      \* storage cell of the best snapshot (0: not bound)
    opt,             \* calls made on the optimizer
    i,               \* samples processed in the running driver / batch
    \* train_patch
    epochs,          \* configured epoch count
    early_stopping,  \* stop_threshold
    best_val_loss,
    best_val_epoch,
    epoch,           \* index the epoch loop is at
    val_loss,        \* the validation loss of the running epoch
    saved,           \* what save_patch last wrote (<<>>: nothing yet)
    ret,             \* storage cell train_patch returned (0: not returned)
    hist,            \* history: <<e, v>>, the live patch was v when epoch e's validation
                     \* ended (kept for the epoch best_val_epoch names and the running one)
    entry,           \* history: the live patch's value when train_patch was called
    \* train_step
    optimizer,       \* TRUE: an optimizer was passed, FALSE: None
    batch_size,      \* images.size(0)
    ishape,          \* <<image.shape[2], image.shape[3]>>
    pshape,          \* <<transformed_patch.shape[2], transformed_patch.shape[3]>>
    x,
    y,
    loss,
    \* calculate_success
    result,          \* the score tensor: a sequence of rows, a row maps class -> score
    target_class,
    success          \* the fraction returned, <<numerator, denominator>>

patchVars == <<store, initial_patch, best_patch, opt>>
loopVars  == <<epochs, early_stopping, best_val_loss, best_val_epoch, epoch,
               val_loss, saved, ret, hist, entry>>
stepVars  == <<optimizer, batch_size, ishape, pshape, x, y, loss>>
callVars  == <<result, target_class, success>>
vars == <<pc, i, patchVars, loopVars, stepVars, callVars>>

\* ------------------------------------------------------------ tensors
\* An element is a finite number: the clip's range and one value beyond it
\* on either side.
Elems   == (ClipLo - 1)..(ClipHi + 1)
Patches == [1..PatchLen -> Elems]
Zero    == [j \in 1..PatchLen |-> 0]
Cells   == 1..3

ClampLoOnly(p) == [j \in 1..PatchLen |-> IF p[j] < ClipLo THEN ClipLo ELSE p[j]]

ClampHiOnly(p) == [j \in 1..PatchLen |-> IF p[j] > ClipHi THEN ClipHi ELSE p[j]]

\* torch.clamp(patch, -1, 1), element by element
Clamp(p) ==
    [j \in 1..PatchLen |->
        IF p[j] < ClipLo THEN ClipLo ELSE IF p[j] > ClipHi THEN ClipHi ELSE p[j]]

\* The cell a fresh tensor is allocated in: one no live reference points at.
Fresh(inUse) == CHOOSE c \in Cells : c \notin inUse /\ \A d \in Cells \ inUse : c <= d

AliasCell(src, inUse) == src

\* t.clone().detach(): a tensor in storage of its own
CloneCell(src, inUse) == Fresh(inUse)

\* Storage no reference points at is released, and the cells are renumbered:
\* the live patch's storage is cell 1, the best snapshot's is cell 2, unless
\* the two share one storage, which is then cell 1.
LiveCell == 1
BestCell(live, best) == IF best = 0 THEN 0 ELSE IF best = live THEN LiveCell ELSE LiveCell + 1
Collect(s, live, best) ==
    [c \in Cells |->
        IF c = LiveCell THEN s[live]
        ELSE IF c = BestCell(live, best) THEN s[best]
        ELSE Zero]

\* ------------------------------------------------------------- floats
Losses == (0..MaxLoss) \cup {PosInf, NaN}

FloatLe(a, b) == a # NaN /\ b # NaN /\ a <= b

\* a < b on floats: false as soon as one side is NaN
FloatLt(a, b) == a # NaN /\ b # NaN /\ a < b

\* f"{v:.4f}": the loss rounded to four decimals (v counts thirds of 1e-4)
Fmt4(v) == IF v = PosInf THEN "inf" ELSE IF v = NaN THEN "nan" ELSE (v + 1) \div 3

SaveNameOneBased(e, l) == <<e + 1, Fmt4(l)>>

\* f"best_patch_{epoch}_{best_val_loss:.4f}"
SaveName(e, l) == <<e, Fmt4(l)>>

\* The history entries of epoch e.
KeepEpoch(h, e) == {r \in h : r[1] = e}

NoCalls == [zero_grad |-> 0, backward |-> 0, step |-> 0]

\* ---------------------------------------------------- calculate_success
Classes(row) == 0..(Cardinality(DOMAIN row) - 1)

RECURSIVE ArgMaxLastScan(_, _, _)
ArgMaxLastScan(row, j, best) ==
    IF j \notin Classes(row) THEN best
    ELSE ArgMaxLastScan(row, j + 1, IF row[j] >= row[best] THEN j ELSE best)

ArgMaxLast(row) == ArgMaxLastScan(row, 1, 0)

RECURSIVE ArgMaxScan(_, _, _)
ArgMaxScan(row, j, best) ==
    IF j \notin Classes(row) THEN best
    ELSE ArgMaxScan(row, j + 1, IF row[j] > row[best] THEN j ELSE best)

\* torch.argmax over one row: the first index of the largest score
ArgMax(row) == ArgMaxScan(row, 1, 0)

RECURSIVE CountEq(_, _, _)
CountEq(top1, target, n) ==
    IF n = 0 THEN 0
    ELSE CountEq(top1, target, n - 1) + (IF top1[n] = target THEN 1 ELSE 0)

\* lines 11-13: (top1_class == target_class).float().mean()
CalculateSuccess(res, target) ==
    LET top1_class == [r \in 1..Len(res) |-> ArgMax(res[r])]
    IN  <<CountEq(top1_class, target, Len(res)), Len(res)>>

\* ----------------------------------------------------------- train_step
\* Lines 42-49, what one sample does to the shared patch: with an optimizer,
\* zero_grad / backward / step (step writes the patch's storage in place,
\* leaving any value there); then, always, patch.data is rebound to a fresh
\* clamped tensor.
Written(withOptimizer) ==
    IF withOptimizer
    THEN {[store EXCEPT ![initial_patch] = v] : v \in Patches}
    ELSE {store}

SampleEffect(withOptimizer) ==
    \E s1 \in Written(withOptimizer) :
        LET c  == Fresh({initial_patch, best_patch})
            s2 == [s1 EXCEPT ![c] = Clamp(s1[initial_patch])]
        IN  /\ initial_patch' = LiveCell
            /\ best_patch' = BestCell(c, best_patch)
            /\ store' = Collect(s2, c, best_patch)
            /\ opt' = IF withOptimizer
                      THEN [zero_grad |-> opt.zero_grad + 1,
                            backward  |-> opt.backward + 1,
                            step      |-> opt.step + 1]
                      ELSE opt

\* torch.randint(low, high, (1,)): one of low .. high - 1; raises when there is none
RandintInclusive(low, high) == low..high

Randint(low, high) == low..(high - 1)

\* torch.log on a probability level: increasing, log(0) = -inf
Log(q) == IF q = 0 THEN 0 - PosInf ELSE q - MaxScore

\* nll_loss(target_prob, [target_class]) on a one-row tensor
NllLoss(target_prob, target) ==
    IF target_prob[1][target] = 0 - PosInf THEN PosInf ELSE 0 - target_prob[1][target]

\* what the model's probs can be: some class has a positive probability
Probs == {q \in [0..(MaxClasses - 1) -> 0..MaxScore] : \E c \in DOMAIN q : q[c] > 0}

\* The values of train_step's and calculate_success's variables while
\* neither runs.
StepIdle ==
    /\ optimizer = FALSE
    /\ batch_size = 0
    /\ ishape = <<0, 0>>
    /\ pshape = <<0, 0>>
    /\ x = 0
    /\ y = 0
    /\ loss = 0

CallIdle ==
    /\ result = <<>>
    /\ target_class = 0
    /\ success = <<>>

LoopIdle ==
    /\ epochs = 0
    /\ early_stopping = 0
    /\ best_val_loss = PosInf
    /\ best_val_epoch = 0
    /\ epoch = 0
    /\ val_loss = 0
    /\ saved = <<>>
    /\ ret = 0
    /\ hist = {}
    /\ entry = Zero

\* ---------------------------------------------------------- train_patch
\* train passes its optimizer on (line 68), val passes None (line 88)
TrainOptimizer == TRUE
ValOptimizerGiven == TRUE
ValOptimizer == FALSE

ShouldStopGe(e, b, threshold) == e - b >= threshold

\* line 135
ShouldStop(e, b, threshold) == e - b > threshold

Init ==
    /\ pc = "init"
    /\ epochs \in 0..MaxEpochs
    /\ early_stopping \in 0..MaxPatience
    /\ \E p \in Patches :
          /\ store = [c \in Cells |-> IF c = LiveCell THEN p ELSE Zero]
          /\ entry = p
    /\ initial_patch = LiveCell
    /\ best_patch = 0
    /\ best_val_loss = PosInf
    /\ best_val_epoch = 0
    /\ epoch = 0
    /\ i = 0
    /\ val_loss = 0
    /\ saved = <<>>
    /\ ret = 0
    /\ opt = NoCalls
    /\ hist = {}
    /\ StepIdle
    /\ CallIdle

\* lines 103-107
Setup ==
    /\ pc = "init"
    /\ LET c  == CloneCell(initial_patch, {initial_patch})
           s1 == [store EXCEPT ![c] = store[initial_patch]]
       IN  /\ initial_patch' = LiveCell
           /\ best_patch' = BestCell(initial_patch, c)
           /\ store' = Collect(s1, initial_patch, c)
    /\ best_val_loss' = PosInf
    /\ best_val_epoch' = 0
    /\ pc' = "loop"
    /\ UNCHANGED <<i, opt, epochs, early_stopping, epoch, val_loss, saved, ret,
                   hist, entry, stepVars, callVars>>

\* line 109: the loop takes its next epoch
LoopNext ==
    /\ pc = "loop"
    /\ epoch < epochs
    /\ pc' = "train"
    /\ i' = 0
    /\ UNCHANGED <<patchVars, loopVars, stepVars, callVars>>

\* line 139: the epochs are exhausted
LoopExit ==
    /\ pc = "loop"
    /\ epoch >= epochs
    /\ ret' = best_patch
    /\ pc' = "done"
    /\ UNCHANGED <<i, patchVars, epochs, early_stopping, best_val_loss,
                   best_val_epoch, epoch, val_loss, saved, hist, entry,
                   stepVars, callVars>>

\* train (line 111): one sample of train_step, as far as the patch goes
TrainSample ==
    /\ pc = "train"
    /\ i < NumTrain
    /\ SampleEffect(TrainOptimizer)
    /\ i' = i + 1
    /\ UNCHANGED <<pc, loopVars, stepVars, callVars>>

\* train returns (lines 76-78)
TrainReturn ==
    /\ pc = "train"
    /\ i = NumTrain
    /\ pc' = "val"
    /\ i' = 0
    /\ UNCHANGED <<patchVars, loopVars, stepVars, callVars>>

\* val (line 114): one sample of train_step, as far as the patch goes
ValSample ==
    /\ pc = "val"
    /\ i < NumVal
    /\ SampleEffect(ValOptimizer)
    /\ i' = i + 1
    /\ UNCHANGED <<pc, loopVars, stepVars, callVars>>

\* val returns its loader-averaged loss (lines 96-98)
ValReturn ==
    /\ pc = "val"
    /\ i = NumVal
    /\ val_loss' \in Losses
    /\ hist' = KeepEpoch(hist, best_val_epoch) \cup {<<epoch, store[initial_patch]>>}
    /\ pc' = "compare"
    /\ UNCHANGED <<i, patchVars, epochs, early_stopping, best_val_loss,
                   best_val_epoch, epoch, saved, ret, entry, stepVars, callVars>>

\* lines 127-133
Compare ==
    /\ pc = "compare"
    /\ IF FloatLt(val_loss, best_val_loss)
       THEN LET c  == CloneCell(initial_patch, {initial_patch, best_patch})
                s1 == [store EXCEPT ![c] = store[initial_patch]]
            IN  /\ best_val_loss' = val_loss
                /\ best_val_epoch' = epoch
                /\ initial_patch' = LiveCell
                /\ best_patch' = BestCell(initial_patch, c)
                /\ store' = Collect(s1, initial_patch, c)
                /\ saved' = <<[name  |-> SaveName(epoch, val_loss),
                               value |-> s1[c]]>>
       ELSE LET c  == CloneCell(best_patch, {initial_patch, best_patch})
                s1 == [store EXCEPT ![c] = store[best_patch]]
            IN  /\ initial_patch' = LiveCell
                /\ best_patch' = BestCell(c, best_patch)
                /\ store' = Collect(s1, c, best_patch)
                /\ UNCHANGED <<best_val_loss, best_val_epoch, saved>>
    /\ hist' = KeepEpoch(hist, best_val_epoch')
    /\ pc' = "check"
    /\ UNCHANGED <<i, opt, epochs, early_stopping, epoch, val_loss, ret, entry,
                   stepVars, callVars>>

\* lines 135-137, and the loop's step to the next epoch.  val_loss is not
\* read again before val assigns it: it goes back to its initial value.
StopCheck ==
    /\ pc = "check"
    /\ IF ShouldStop(epoch, best_val_epoch, early_stopping)
       THEN /\ ret' = best_patch
            /\ pc' = "done"
            /\ UNCHANGED epoch
       ELSE /\ epoch' = epoch + 1
            /\ pc' = "loop"
            /\ UNCHANGED ret
    /\ val_loss' = 0
    /\ UNCHANGED <<i, patchVars, epochs, early_stopping, best_val_loss,
                   best_val_epoch, saved, hist, entry, stepVars, callVars>>

Next ==
    \/ Setup
    \/ LoopNext
    \/ LoopExit
    \/ TrainSample
    \/ TrainReturn
    \/ ValSample
    \/ ValReturn
    \/ Compare
    \/ StopCheck

Spec == Init /\ [][Next]_vars

\* ------------------------------------------- train_step, one batch
InitStep ==
    /\ pc = "step"
    /\ i = 0
    /\ optimizer \in BOOLEAN
    /\ batch_size \in 0..MaxBatch
    /\ ishape \in (1..MaxImg) \X (1..MaxImg)
    /\ target_class \in 0..(MaxClasses - 1)
    /\ \E p \in Patches : store = [c \in Cells |-> IF c = LiveCell THEN p ELSE Zero]
    /\ initial_patch = LiveCell
    /\ best_patch = 0
    /\ opt = NoCalls
    /\ pshape = <<0, 0>>
    /\ x = 0
    /\ y = 0
    /\ loss = 0
    /\ result = <<>>
    /\ success = <<>>
    /\ LoopIdle

\* lines 22-32: transform the patch, draw the placement
StepPlace ==
    /\ pc = "step"
    /\ i < batch_size
    /\ \E ph \in 1..MaxImg, pw \in 1..MaxImg :
          /\ pshape' = <<ph, pw>>
          /\ x' \in Randint(0, ishape[1] - ph)
          /\ y' \in Randint(0, ishape[2] - pw)
    /\ pc' = "predict"
    /\ UNCHANGED <<i, patchVars, loopVars, optimizer, batch_size, ishape, loss,
                   callVars>>

\* lines 30-31: torch.randint raises, the patch does not fit
StepPlaceRaise ==
    /\ pc = "step"
    /\ i < batch_size
    /\ \E ph \in 1..MaxImg, pw \in 1..MaxImg :
          /\ pshape' = <<ph, pw>>
          /\ IF Randint(0, ishape[1] - ph) = {}
             THEN UNCHANGED <<x, y>>
             ELSE /\ Randint(0, ishape[2] - pw) = {}
                  /\ x' \in Randint(0, ishape[1] - ph)
                  /\ UNCHANGED y
    /\ pc' = "steperr"
    /\ UNCHANGED <<i, patchVars, loopVars, optimizer, batch_size, ishape, loss,
                   callVars>>

\* lines 35-39: the model's prediction, the loss and the success.  The
\* placement and the score tensor are not read again: they go back to their
\* initial values.
StepPredict ==
    /\ pc = "predict"
    /\ \E probs \in Probs :
          LET log_probs   == [c \in DOMAIN probs |-> Log(probs[c])]
              target_prob == <<log_probs>>
          IN  /\ loss' = NllLoss(target_prob, target_class)
              /\ success' = CalculateSuccess(target_prob, target_class)
    /\ pshape' = <<0, 0>>
    /\ x' = 0
    /\ y' = 0
    /\ pc' = "update"
    /\ UNCHANGED <<i, patchVars, loopVars, optimizer, batch_size, ishape, result,
                   target_class>>

\* lines 42-52: the optimizer and the clip; the loss and the success go into
\* the sums the averages are taken of, which are left out here.
StepUpdate ==
    /\ pc = "update"
    /\ SampleEffect(optimizer)
    /\ i' = i + 1
    /\ loss' = 0
    /\ success' = <<>>
    /\ pc' = "step"
    /\ UNCHANGED <<loopVars, optimizer, batch_size, ishape, pshape, x, y, result,
                   target_class>>

\* lines 54-57: the averages; an empty batch divides by zero
StepReturn ==
    /\ pc = "step"
    /\ i = batch_size
    /\ pc' = IF batch_size = 0 THEN "steperr" ELSE "stepdone"
    /\ UNCHANGED <<i, patchVars, loopVars, stepVars, callVars>>

NextStep ==
    \/ StepPlace
    \/ StepPlaceRaise
    \/ StepPredict
    \/ StepUpdate
    \/ StepReturn

SpecStep == InitStep /\ [][NextStep]_vars

\* ---------------------------------------------- calculate_success alone
Tensors ==
    UNION {[1..n -> [0..(k - 1) -> 0..MaxScore]] : n \in 1..MaxRows, k \in 1..MaxClasses}

InitCall ==
    /\ pc = "call"
    /\ i = 0
    /\ result \in Tensors
    /\ target_class \in 0..MaxClasses
    /\ success = <<>>
    /\ store = [c \in Cells |-> Zero]
    /\ initial_patch = LiveCell
    /\ best_patch = 0
    /\ opt = NoCalls
    /\ StepIdle
    /\ LoopIdle

CallSuccess ==
    /\ pc = "call"
    /\ success' = CalculateSuccess(result, target_class)
    /\ pc' = "called"
    /\ UNCHANGED <<i, patchVars, loopVars, stepVars, result, target_class>>

NextCall == CallSuccess

SpecSuccess == InitCall /\ [][NextCall]_vars

\* ================================================================ claims
\* Vocabulary of the claims, stated without the operators of the model.
InRange(p) == \A j \in DOMAIN p : (0 - 1) <= p[j] /\ p[j] <= 1

Live == store[initial_patch]

Best == store[best_patch]

IsFinite(v) == v \in 0..MaxLoss

\* the validation loss compares strictly below the best seen so far
Improves ==
    /\ IsFinite(val_loss)
    /\ \/ best_val_loss = PosInf
       \/ IsFinite(best_val_loss) /\ val_loss + 1 <= best_val_loss

\* some epoch has improved on the initial +infinity
HasImproved == IsFinite(best_val_loss)

Returned == pc = "done"

StoppedEarly == pc = "done" /\ epoch < epochs

\* C1: train_patch stops at the first of: the epochs being exhausted, or the
\* first epoch e with e - best_val_epoch > stop_threshold.  It has never run
\* past an epoch whose check held (the epoch before the running one passed
\* its check), an early stop happens only where the check holds, and that is
\* exactly epoch best_val_epoch + stop_threshold + 1.
C1_StopsAtFirst ==
    /\ epoch <= epochs
    /\ epoch > 0 => (epoch - 1) - best_val_epoch <= early_stopping
    /\ StoppedEarly =>
          /\ epoch - best_val_epoch > early_stopping
          /\ epoch = best_val_epoch + early_stopping + 1

C1_Witness == StoppedEarly /\ best_val_epoch > 0 /\ HasImproved

\* C2, as claimed: whenever train_patch returns, the returned patch is the
\* value the live patch had at the end of validation of epoch best_val_epoch.
C2_Original ==
    Returned => \E r \in hist : r[1] = best_val_epoch /\ r[2] = store[ret]

\* C2, amended: whenever train_patch returns it returns the best snapshot;
\* if some epoch improved, that is the value the live patch had at the end
\* of validation of epoch best_val_epoch; if none did (no epoch ran, or every
\* validation loss was +infinity or NaN), it is the value the initial patch
\* had on entry, and best_val_epoch is still 0.
C2_ReturnsBestSnapshot ==
    Returned =>
       /\ ret = best_patch
       /\ IF HasImproved
          THEN \E r \in hist : r[1] = best_val_epoch /\ r[2] = store[ret]
          ELSE store[ret] = entry /\ best_val_epoch = 0

C2_Witness ==
    /\ Returned
    /\ HasImproved
    /\ best_val_epoch > 0
    /\ epoch > best_val_epoch
    /\ store[ret] # entry

\* C4: at the comparison step of an epoch, a validation loss strictly below
\* the best so far sets best loss, best epoch and best snapshot to the
\* epoch's loss, index and live patch; any other loss (an equal one too)
\* leaves the three unchanged and overwrites the live patch with the best
\* snapshot's value.
C4_CompareStep ==
    [][pc = "compare" =>
          IF Improves
          THEN /\ best_val_loss' = val_loss
               /\ best_val_epoch' = epoch
               /\ Best' = Live
               /\ Live' = Live
          ELSE /\ best_val_loss' = best_val_loss
               /\ best_val_epoch' = best_val_epoch
               /\ Best' = Best
               /\ Live' = Best]_vars

\* an epoch whose loss equalled the best was not taken as an improvement,
\* and the live patch was rolled back
C4_Witness ==
    /\ pc = "check"
    /\ IsFinite(val_loss)
    /\ val_loss = best_val_loss
    /\ best_val_epoch < epoch
    /\ Live = Best
    /\ saved # <<>>
    /\ saved[1].name[1] = best_val_epoch

\* C5: the best snapshot never shares storage with the live patch, and no
\* sample of train_step (optimizer step in place, clip) changes its value.
C5_NeverAliases ==
    /\ [](best_patch # initial_patch)
    /\ [][(pc = "train" \/ pc = "val") => Best' = Best]_vars

C5_Witness ==
    /\ pc = "train"
    /\ i > 0
    /\ HasImproved
    /\ Live # Best

\* C7: train_patch persists a patch in an epoch exactly when that epoch's
\* validation loss strictly improves on the best so far; what it persists is
\* the new best snapshot, under a name made of the epoch's index and its
\* loss to four decimals; and whenever it returns after some epoch improved,
\* the patch persisted last equals the patch returned.
C7_PersistsOnImprovement ==
    /\ [][(saved' # saved) <=> (pc = "compare" /\ Improves)]_vars
    /\ [][(pc = "compare" /\ Improves) =>
             /\ Len(saved') = 1
             /\ saved'[1].name = <<epoch, Fmt4(val_loss)>>
             /\ saved'[1].value = Best'
             /\ saved'[1].value = Live]_vars
    /\ []((Returned /\ HasImproved) =>
             Len(saved) = 1 /\ saved[1].value = store[ret])

C7_Witness ==
    /\ Returned
    /\ Len(saved) = 1
    /\ saved[1].name[1] > 0
    /\ epoch > saved[1].name[1]

\* C9: a validation sample calls nothing on the optimizer; the only write to
\* the patch is the clip, so a patch in [-1, 1] keeps its value through the
\* validation pass.
C9_ValidationOnlyClips ==
    [][pc = "val" =>
          /\ opt' = opt
          /\ \A j \in DOMAIN Live :
                Live'[j] = IF Live[j] < 0 - 1 THEN 0 - 1
                           ELSE IF Live[j] > 1 THEN 1 ELSE Live[j]
          /\ InRange(Live) => Live' = Live]_vars

C9_Witness ==
    /\ pc = "val"
    /\ i = NumVal
    /\ opt.step > 0
    /\ Live # Zero

C6_PlacementInside ==
    (pc = "predict" /\ pshape[1] < ishape[1] /\ pshape[2] < ishape[2]) =>
       /\ 0 <= x /\ x < ishape[1] - pshape[1]
       /\ 0 <= y /\ y < ishape[2] - pshape[2]
       /\ x + pshape[1] <= ishape[1]
       /\ y + pshape[2] <= ishape[2]

C6_Witness ==
    /\ pc = "predict"
    /\ x > 0
    /\ y = ishape[2] - pshape[2] - 1
    /\ pshape[2] > 1

\* -------------------------------------------- claims on calculate_success
\* the first index at which a row takes its largest score
FirstMax(row) ==
    CHOOSE m \in DOMAIN row :
        /\ \A c \in DOMAIN row : row[c] <= row[m]
        /\ \A c \in DOMAIN row : c < m => row[c] < row[m]

Hits == {r \in 1..Len(result) : FirstMax(result[r]) = target_class}

\* C8: calculate_success returns the number of rows whose first maximal
\* index is the target class, over the number of rows; for one row that is
\* exactly 0 or 1.
C8_SuccessFraction ==
    pc = "called" =>
       /\ success = <<Cardinality(Hits), Len(result)>>
       /\ Len(result) = 1 => success \in {<<0, 1>>, <<1, 1>>}

\* a tie inside a row, resolved to the target class
C8_Witness ==
    /\ pc = "called"
    /\ \E r \in 1..Len(result) :
          /\ target_class \in DOMAIN result[r]
          /\ \E c \in DOMAIN result[r] : c > target_class /\ result[r][c] = result[r][target_class]
          /\ r \in Hits
    /\ success[1] < success[2]

====
